---------------------------- MODULE Spec2Model ----------------------------
(***************************************************************************)
(* webtransport-quinn, src/stream.rs: SendStream and RecvStream, the       *)
(* wrappers of quinn's streams that translate WebTransport's u32 error     *)
(* codes to and from the HTTP/3 reserved error space.                      *)
(*                                                                         *)
(* Six specifications share the variables:                                 *)
(*   CodecSpec    the error-code path: reset/stop encode, the wire, the    *)
(*                decoding in stopped() and in the error conversions;      *)
(*   SendSpec     one SendStream and the engine's send half behind it;     *)
(*   RecvSpec     one RecvStream and the engine's receive half behind it;  *)
(*   StreamsSpec  both handles of a stream, one of them in use;            *)
(*   GenericSpec  the operations that never wait and the fire-and-forget   *)
(*                forms of the generic interface;                          *)
(*   OrderSpec    the partial byte transfers over a network that reorders  *)
(*                what the peer sent, unordered read_chunk included.       *)
(*                                                                         *)
(* Numbers wider than 31 bits (u32 codes, u64 wire codes, VarInt) are      *)
(* triples of 24-bit limbs, most significant first, so that the arithmetic *)
(* of the translation is carried out at its full width.                    *)
(***************************************************************************)
EXTENDS Integers, Sequences, FiniteSets

\* ------------------------------------------------------------------ bounds

\* Low application codes 0..MaxLowCode are enumerated (two gap periods).
MaxLowCode == 64
\* High application codes u32::MAX - MaxHighBack .. u32::MAX are enumerated.
MaxHighBack == 3
\* Wire codes First - 1 - k and Last + 1 + k, k <= MaxOutside, are enumerated.
MaxOutside == 2

\* ------------------------------------------------- wide unsigned integers

Limb == 2^24

None == <<>>
Some(x) == <<x>>

\* The number n < 2^24 as a wide integer.
Small(n) == <<0, 0, n>>

Add(x, y) ==
    LET s0 == x[3] + y[3]
        s1 == x[2] + y[2] + (s0 \div Limb)
        s2 == x[1] + y[1] + (s1 \div Limb)
    IN  <<s2, s1 % Limb, s0 % Limb>>

\* x - y for x >= y.
Sub(x, y) ==
    LET d0 == x[3] - y[3]
        b0 == IF d0 < 0 THEN 1 ELSE 0
        d1 == x[2] - y[2] - b0
        b1 == IF d1 < 0 THEN 1 ELSE 0
        d2 == x[1] - y[1] - b1
    IN  <<d2, d1 + b1 * Limb, d0 + b0 * Limb>>

Less(x, y) ==
    \/ x[1] < y[1]
    \/ x[1] = y[1] /\ x[2] < y[2]
    \/ x[1] = y[1] /\ x[2] = y[2] /\ x[3] < y[3]

\* Long division of x by a divisor d < 2^7: <<quotient, remainder>>.
DivMod(x, d) ==
    LET q2 == x[1] \div d
        c1 == (x[1] % d) * Limb + x[2]
        q1 == c1 \div d
        c0 == (c1 % d) * Limb + x[3]
    IN  <<(<<q2, q1, c0 \div d>>), c0 % d>>

Div(x, d) == DivMod(x, d)[1]
Mod(x, d) == DivMod(x, d)[2]

\* u32::MAX = 0xffff_ffff
U32_MAX == <<0, 255, Limb - 1>>
\* quinn::VarInt::MAX = 2^62 - 1
VARINT_MAX == <<2^14 - 1, Limb - 1, Limb - 1>>

\* ------------------------------------------------------ the translation
\* webtransport_proto::error_to_http3 / error_from_http3, the functions
\* stream.rs calls at lines 28, 37 and 144.

\* 0x52e4a40fa8db
ERROR_FIRST == <<0, 5432484, 1026267>>
\* 0x52e5ac983162
ERROR_LAST == <<0, 5432748, 9974114>>
\* One code in every 0x1f of the HTTP/3 space is reserved: 0x1f * N + 0x21.
GapPeriod == 31
GapOffset == 33

error_to_http3(code) ==
    Add(Add(ERROR_FIRST, code), Div(code, GapPeriod - 1))

error_from_http3(code) ==
    IF Less(code, ERROR_FIRST) \/ Less(ERROR_LAST, code)
    THEN None
    ELSE IF Mod(Sub(code, Small(GapOffset)), GapPeriod) = 0
         THEN None
         ELSE LET shifted == Sub(code, ERROR_FIRST)
              IN  Some(Sub(shifted, Div(shifted, GapPeriod)))

\* quinn::VarInt::try_from(u64): an error from 2^62 on.
VarIntTryFrom(x) == IF Less(VARINT_MAX, x) THEN None ELSE Some(x)

\* stream.rs 28-29 and 144-145: the wire code handed to the engine; None is
\* the panic of the unwrap.
WireCodeRaw(code) == VarIntTryFrom(code)
\* A conversion that has room for 32 bits only.
WireCodeU32(code) ==
    IF Less(U32_MAX, error_to_http3(code)) THEN None
    ELSE Some(error_to_http3(code))
WireCode(code) == VarIntTryFrom(error_to_http3(code))

\* stream.rs 37: the code stopped() returns for the engine's code.
StoppedCodeRaw(code) == Some(<<0, code[2] % 256, code[3]>>)
\* A decoding that takes the reserved gap codes for application codes.
StoppedCodeNoGap(code) ==
    IF Less(code, ERROR_FIRST) \/ Less(ERROR_LAST, code)
    THEN None
    ELSE LET shifted == Sub(code, ERROR_FIRST)
         IN  Some(Sub(shifted, Div(shifted, GapPeriod)))
StoppedCode(code) == error_from_http3(code)

\* ------------------------------------------------------------ the inputs

AppCodes ==
    {Small(n) : n \in 0..MaxLowCode}
        \cup {Sub(U32_MAX, Small(k)) : k \in 0..MaxHighBack}

\* Wire codes a peer may put on a reset or a stop-sending: around both ends
\* of the reserved range, and codes of other protocols.
WireCodes ==
    {Add(ERROR_FIRST, Small(k)) : k \in 0..MaxLowCode}
        \cup {Sub(ERROR_LAST, Small(k)) : k \in 0..MaxHighBack}
        \cup {Sub(ERROR_FIRST, Small(k + 1)) : k \in 0..MaxOutside}
        \cup {Add(ERROR_LAST, Small(k + 1)) : k \in 0..MaxOutside}
        \cup {Small(0), Small(256), Small(268), U32_MAX, VARINT_MAX}

\* ----------------------------------------------------------- the state

VARIABLES
    cPhase,     \* "idle", "wire" (a code is in flight), "decoded", "panic"
    cApp,       \* the application code passed to reset/stop, None if the
                \* code in flight is the peer's own
    cWire,      \* the wire code in flight
    cOut        \* what stopped() returned for it

codecVars == <<cPhase, cApp, cWire, cOut>>

VARIABLES
    sState,     \* the engine's send half: "Ready", "DataSent" (finish
                \* requested), "ResetSent", "Closed" (acknowledged, forgotten)
    sStop,      \* the wire code of the peer's STOP_SENDING, None before it
    sConnLost,  \* the connection has failed
    sSent,      \* the bytes the engine has accepted, in order
    sResets,    \* the wire codes of the RESET_STREAM frames issued
    sFinishing, \* SendStream.finishing, the one-shot notification of finish:
                \* "none", "waiting", "ok", "stopped", "lost"
    sPeerGot,   \* how many bytes the peer's application has been given
    sPos,       \* the cursor of the caller's buffer: bytes consumed from it
    sCall,      \* the suspended call of the task that owns the handle
    sRes,       \* the result of the last call that returned
    sFinished,  \* finish() or poll_finish has returned Ok
    sResetOk,   \* the application code of the first reset that returned Ok
    sResetAt,   \* the number of bytes accepted when that reset returned
    sPrio       \* the engine's priority of the stream

sendVars == <<sState, sStop, sConnLost, sSent, sResets, sFinishing, sPeerGot,
              sPos, sCall, sRes, sFinished, sResetOk, sResetAt, sPrio>>

VARIABLES
    pSent,      \* how many bytes of the peer have arrived: byte i has value i
    rFin,       \* the peer's FIN has arrived
    rReset,     \* the wire code of the peer's RESET_STREAM, None before it
    rStopOut,   \* the wire codes of the STOP_SENDING frames issued
    rAllRead,   \* RecvStream.all_data_read: the handle has seen its end
    rUnordered, \* the engine's assembler has been read out of order
    rConnLost,  \* the connection has failed
    rSticky,    \* the engine build: a handle that has seen its end answers
                \* reads with Ok(None) (TRUE) or with UnknownStream (FALSE)
    rTaken,     \* the bytes taken out of the engine so far, in the order
                \* in which they were taken
    rCall,      \* the suspended call of the task that owns the handle
    rRes,       \* the result of the last call that returned
    rOut,       \* the bytes that call handed to its caller
    rTick,      \* the parity of the number of calls that have returned
    rAhead      \* the positions beyond pSent + 1 whose bytes have arrived
                \* ahead of the bytes before them

recvVars == <<pSent, rFin, rReset, rStopOut, rAllRead, rUnordered, rConnLost,
              rSticky, rTaken, rCall, rRes, rOut, rTick, rAhead>>

vars == <<codecVars, sendVars, recvVars>>

CodecInit ==
    /\ cPhase = "idle"
    /\ cApp = None
    /\ cWire = Small(0)
    /\ cOut = None

\* SendStream::reset(code) / RecvStream::stop(code): the code is translated
\* and handed to the engine, which carries it to the peer.
CodecEncode(code) ==
    LET w == WireCode(code)
    IN  /\ cPhase # "panic"
        /\ cApp' = Some(code)
        /\ cOut' = None
        /\ IF w = None
           THEN cPhase' = "panic" /\ UNCHANGED cWire
           ELSE cPhase' = "wire" /\ cWire' = w[1]
    /\ UNCHANGED <<sendVars, recvVars>>

\* A peer that is not this library resets or stops with a code of its own.
CodecPeerCode(w) ==
    /\ cPhase # "panic"
    /\ cPhase' = "wire"
    /\ cApp' = None
    /\ cWire' = w
    /\ cOut' = None
    /\ UNCHANGED <<sendVars, recvVars>>

\* SendStream::stopped() (and the error conversions) decode the wire code.
CodecDecode ==
    /\ cPhase = "wire"
    /\ cPhase' = "decoded"
    /\ cOut' = StoppedCode(cWire)
    /\ UNCHANGED <<cApp, cWire>>
    /\ UNCHANGED <<sendVars, recvVars>>

CodecNext ==
    \/ \E code \in AppCodes : CodecEncode(code)
    \/ \E w \in WireCodes : CodecPeerCode(w)
    \/ CodecDecode


\* ------------------------------------------------------------ SendStream

\* The bytes the caller of the SendStream has to send: byte i has value i.
BufLen == 2

\* The application codes of SendSpec and RecvSpec, and the wire codes a peer
\* puts on its own signals there: their translations, a reserved gap code
\* inside the range, and HTTP/3's H3_NO_ERROR (0x100).
StreamAppCodes == {Small(42), U32_MAX}
StreamPeerCodes ==
    {error_to_http3(c) : c \in StreamAppCodes}
        \cup {Add(ERROR_FIRST, Small(GapPeriod - 1)), Small(256)}

Data == [i \in 1..BufLen |-> i]

\* What a call returned: the operation, "Ok" / "Err" / "Pending" / "Panic",
\* the byte count of an Ok, the error's kind, and the application code that
\* came with the result (of stopped(), or attached to the error). tick is
\* the parity of the number of calls that have returned; arg is the length
\* of the chunk a poll_send was called with.
Res(op, kind, n, err, code) ==
    [op |-> op, kind |-> kind, n |-> n, err |-> err, code |-> code,
     tick |-> 1 - sRes.tick, arg |-> 0]
NoRes ==
    [op |-> "", kind |-> "", n |-> 0, err |-> "", code |-> None, tick |-> 0,
     arg |-> 0]
Ok(op, n) == Res(op, "Ok", n, "", None)
Err(op, e) == Res(op, "Err", 0, e.kind, e.code)

\* The engine's errors: a kind, and the wire code of a peer's signal.
QErr(kind) == [kind |-> kind, wire |-> Small(0)]
QCode(kind, w) == [kind |-> kind, wire |-> w]

\* crate::WriteError from quinn::WriteError (the `map_err(Into::into)` of
\* lines 44-72 and 119): a peer's stop carries the translated code, if any.
WriteErrorFrom(e) ==
    CASE e.kind = "Stopped" ->
            [kind |-> "Stopped", code |-> error_from_http3(e.wire)]
      [] e.kind = "UnknownStream" -> [kind |-> "Closed", code |-> None]
      [] OTHER -> [kind |-> "SessionError", code |-> None]

\* crate::StreamClosed from quinn::UnknownStream (lines 30, 76, 80).
StreamClosedFrom(e) == [kind |-> "StreamClosed", code |-> None]

\* crate::StoppedError from quinn::StoppedError (the `?` of line 36).
StoppedErrorFrom(e) == [kind |-> "StoppedError", code |-> None]

\* The `map_err(Into::into)` of the write family and of finish (lines 44-72,
\* 115, 119).
write_map_err_NoCode(e) == [kind |-> WriteErrorFrom(e).kind, code |-> None]
write_map_err(e) == WriteErrorFrom(e)

SendInit ==
    /\ sState = "Ready"
    /\ sStop = None
    /\ sConnLost = FALSE
    /\ sSent = <<>>
    /\ sResets = <<>>
    /\ sFinishing = "none"
    /\ sPeerGot = 0
    /\ sPos = 0
    /\ sCall = None
    /\ sRes = NoRes
    /\ sFinished = FALSE
    /\ sResetOk = None
    /\ sResetAt = 0
    /\ sPrio = 0

\* ---- the engine's send half (quinn::SendStream)

\* quinn::SendStream::reset: refused on a stream the engine has forgotten or
\* has already reset; otherwise the stream stops taking data and one
\* RESET_STREAM with the code is queued.
inner_reset(wire) ==
    IF sState \in {"Closed", "ResetSent"}
    THEN [kind |-> "Err", state |-> sState, resets |-> sResets]
    ELSE [kind |-> "Ok", state |-> "ResetSent",
          resets |-> Append(sResets, wire)]

\* quinn::SendStream::write, polled once with a buffer of len bytes: the
\* outcomes it may have. A lost connection is reported first, then a stream
\* that no longer takes data, then the peer's stop; otherwise flow control
\* decides how much is taken, and Blocked leaves the call pending.
inner_write(len) ==
    IF sConnLost THEN {[kind |-> "Err", n |-> 0, err |-> QErr("ConnectionLost")]}
    ELSE IF sState # "Ready"
    THEN {[kind |-> "Err", n |-> 0, err |-> QErr("UnknownStream")]}
    ELSE IF sStop # None
    THEN {[kind |-> "Err", n |-> 0, err |-> QCode("Stopped", sStop[1])]}
    ELSE {[kind |-> "Pending", n |-> 0, err |-> QErr("")]}
            \cup {[kind |-> "Ok", n |-> n, err |-> QErr("")] :
                    n \in (IF len = 0 THEN {0} ELSE 1..len)}

\* quinn::SendStream::poll_finish: the first poll asks the engine to finish
\* (refused after a stop, and on a stream that is not Ready) and registers
\* the notification; every poll then looks at the notification, and at the
\* connection only while nothing has been notified.
inner_poll_finish ==
    LET refused ==
            IF sFinishing # "none" THEN None
            ELSE IF sState = "Closed" THEN Some(QErr("UnknownStream"))
            ELSE IF sStop # None THEN Some(QCode("Stopped", sStop[1]))
            ELSE IF sState # "Ready" THEN Some(QErr("UnknownStream"))
            ELSE None
        state == IF sFinishing = "none" /\ refused = None
                 THEN "DataSent" ELSE sState
        chan == IF sFinishing = "none" THEN "waiting" ELSE sFinishing
    IN  IF refused # None
        THEN [kind |-> "Err", err |-> refused[1], state |-> sState,
              finishing |-> sFinishing]
        ELSE CASE chan = "ok" ->
                    [kind |-> "Ok", err |-> QErr(""), state |-> state,
                     finishing |-> "none"]
               [] chan = "stopped" ->
                    [kind |-> "Err", err |-> QCode("Stopped", sStop[1]),
                     state |-> state, finishing |-> "none"]
               [] chan = "lost" ->
                    [kind |-> "Err", err |-> QErr("ConnectionLost"),
                     state |-> state, finishing |-> "none"]
               [] OTHER ->
                    IF sConnLost
                    THEN [kind |-> "Err", err |-> QErr("ConnectionLost"),
                          state |-> state, finishing |-> chan]
                    ELSE [kind |-> "Pending", err |-> QErr(""),
                          state |-> state, finishing |-> chan]

\* quinn::SendStream::stopped, polled once.
inner_poll_stopped ==
    IF sState = "Closed" THEN [kind |-> "Err", err |-> QErr("UnknownStream")]
    ELSE IF sStop # None THEN [kind |-> "Ok", err |-> QCode("", sStop[1])]
    ELSE IF sConnLost THEN [kind |-> "Err", err |-> QErr("ConnectionLost")]
    ELSE [kind |-> "Pending", err |-> QErr("")]

\* ---- the wrapper (stream.rs)

\* A reset that reports success without resetting the engine's stream.
SendStream_reset_NoEngine(code) ==
    /\ sCall = None
    /\ sRes' = Ok("reset", 0)
    /\ sResetOk' = IF sResetOk = None THEN Some(code) ELSE sResetOk
    /\ sResetAt' = IF sResetOk = None THEN Len(sSent) ELSE sResetAt
    /\ UNCHANGED <<sState, sStop, sConnLost, sSent, sResets, sFinishing,
                   sPeerGot, sPos, sCall, sFinished>>
    /\ UNCHANGED <<codecVars, recvVars, sPrio>>

\* A reset that discards the engine's refusal and reports success.
SendStream_reset_Ignore(code) ==
    LET r == inner_reset(WireCode(code)[1])
    IN  /\ sCall = None
        /\ sState' = r.state
        /\ sResets' = r.resets
        /\ sRes' = Ok("reset", 0)
        /\ sResetOk' = IF sResetOk = None THEN Some(code) ELSE sResetOk
        /\ sResetAt' = IF sResetOk = None THEN Len(sSent) ELSE sResetAt
        /\ UNCHANGED <<sStop, sConnLost, sSent, sFinishing, sPeerGot, sPos,
                       sCall, sFinished>>
    /\ UNCHANGED <<codecVars, recvVars, sPrio>>

\* A reset that waits for the acknowledgement of a finish.
SendStream_reset_Wait(code) ==
    LET wire == WireCode(code)
        r == inner_reset(wire[1])
        first == r.kind = "Ok" /\ sResetOk = None
    IN  /\ sCall = None \/ sCall = Some([op |-> "reset", left |-> 0])
        /\ IF sState = "DataSent"
           THEN /\ sCall' = Some([op |-> "reset", left |-> 0])
                /\ UNCHANGED <<sState, sResets, sRes, sResetOk, sResetAt>>
           ELSE /\ sCall' = None
                /\ sState' = r.state
                /\ sResets' = r.resets
                /\ sRes' = IF r.kind = "Ok" THEN Ok("reset", 0)
                           ELSE Err("reset", StreamClosedFrom(QErr("UnknownStream")))
                /\ sResetOk' = IF first THEN Some(code) ELSE sResetOk
                /\ sResetAt' = IF first THEN Len(sSent) ELSE sResetAt
        /\ UNCHANGED <<sStop, sConnLost, sSent, sFinishing, sPeerGot, sPos,
                       sFinished>>
    /\ UNCHANGED <<codecVars, recvVars, sPrio>>

\* SendStream::reset (lines 27-31).
SendStream_reset(code) ==
    LET wire == WireCode(code)
        r == inner_reset(wire[1])
        first == r.kind = "Ok" /\ sResetOk = None
    IN  /\ sCall = None
        /\ IF wire = None
           THEN /\ sRes' = Res("reset", "Panic", 0, "", None)
                /\ UNCHANGED <<sState, sResets, sResetOk, sResetAt>>
           ELSE /\ sState' = r.state
                /\ sResets' = r.resets
                /\ sRes' = IF r.kind = "Ok" THEN Ok("reset", 0)
                           ELSE Err("reset", StreamClosedFrom(QErr("UnknownStream")))
                /\ sResetOk' = IF first THEN Some(code) ELSE sResetOk
                /\ sResetAt' = IF first THEN Len(sSent) ELSE sResetAt
        /\ UNCHANGED <<sStop, sConnLost, sSent, sFinishing, sPeerGot, sPos,
                       sCall, sFinished>>
    /\ UNCHANGED <<codecVars, recvVars, sPrio>>

\* A stopped() that turns the engine's failure into "no code".
SendStream_stopped_NoErr ==
    LET r == inner_poll_stopped
    IN  /\ sCall = None \/ sCall = Some([op |-> "stopped", left |-> 0])
        /\ IF r.kind = "Pending"
           THEN /\ sCall' = Some([op |-> "stopped", left |-> 0])
                /\ UNCHANGED sRes
           ELSE /\ sCall' = None
                /\ sRes' = Res("stopped", "Ok", 0, "",
                               IF r.kind = "Ok" THEN StoppedCode(r.err.wire)
                               ELSE None)
        /\ UNCHANGED <<sState, sStop, sConnLost, sSent, sResets, sFinishing,
                       sPeerGot, sPos, sFinished, sResetOk, sResetAt>>
    /\ UNCHANGED <<codecVars, recvVars, sPrio>>

\* SendStream::stopped (lines 35-38): the call is suspended while the engine
\* has nothing to report.
SendStream_stopped ==
    LET r == inner_poll_stopped
    IN  /\ sCall = None \/ sCall = Some([op |-> "stopped", left |-> 0])
        /\ CASE r.kind = "Pending" ->
                    /\ sCall' = Some([op |-> "stopped", left |-> 0])
                    /\ UNCHANGED sRes
             [] r.kind = "Ok" ->
                    /\ sCall' = None
                    /\ sRes' = Res("stopped", "Ok", 0, "", StoppedCode(r.err.wire))
             [] OTHER ->
                    /\ sCall' = None
                    /\ sRes' = Err("stopped", StoppedErrorFrom(r.err))
        /\ UNCHANGED <<sState, sStop, sConnLost, sSent, sResets, sFinishing,
                       sPeerGot, sPos, sFinished, sResetOk, sResetAt>>
    /\ UNCHANGED <<codecVars, recvVars, sPrio>>

\* quinn::SendStream::set_priority and priority: refused on a stream the
\* engine has forgotten.
inner_set_priority(order) ==
    IF sState = "Closed" THEN [kind |-> "Err", prio |-> sPrio]
    ELSE [kind |-> "Ok", prio |-> order]

inner_priority ==
    IF sState = "Closed" THEN [kind |-> "Err", prio |-> 0]
    ELSE [kind |-> "Ok", prio |-> sPrio]

\* The orders set_priority is called with.
PrioOrders == {1}

\* SendStream::set_priority (lines 75-77); arg is the order.
SendStream_set_priority(order) ==
    LET r == inner_set_priority(order)
    IN  /\ sCall = None
        /\ sPrio' = r.prio
        /\ sRes' = [(IF r.kind = "Ok" THEN Ok("set_priority", 0)
                     ELSE Err("set_priority",
                              StreamClosedFrom(QErr("UnknownStream"))))
                    EXCEPT !.arg = order]
        /\ UNCHANGED <<sState, sStop, sConnLost, sSent, sResets, sFinishing,
                       sPeerGot, sPos, sCall, sFinished, sResetOk, sResetAt>>
    /\ UNCHANGED <<codecVars, recvVars>>

\* SendStream::priority (lines 79-81); arg is the priority returned.
SendStream_priority ==
    LET r == inner_priority
    IN  /\ sCall = None
        /\ sRes' = [(IF r.kind = "Ok" THEN Ok("priority", 0)
                     ELSE Err("priority",
                              StreamClosedFrom(QErr("UnknownStream"))))
                    EXCEPT !.arg = r.prio]
        /\ UNCHANGED <<sState, sStop, sConnLost, sSent, sResets, sFinishing,
                       sPeerGot, sPos, sCall, sFinished, sResetOk, sResetAt,
                       sPrio>>
    /\ UNCHANGED <<codecVars, recvVars>>

\* A generic reset that unwraps the result of the reset.
generic_reset_Unwrap(reset_code) ==
    LET wire == WireCode(reset_code)
        r == inner_reset(wire[1])
        first == r.kind = "Ok" /\ sResetOk = None
    IN  /\ sCall = None
        /\ sState' = r.state
        /\ sResets' = r.resets
        /\ sRes' = IF r.kind = "Ok" THEN Ok("generic_reset", 0)
                   ELSE Res("generic_reset", "Panic", 0, "", None)
        /\ sResetOk' = IF first THEN Some(reset_code) ELSE sResetOk
        /\ sResetAt' = IF first THEN Len(sSent) ELSE sResetAt
        /\ UNCHANGED <<sStop, sConnLost, sSent, sFinishing, sPeerGot, sPos,
                       sCall, sFinished, sPrio>>
    /\ UNCHANGED <<codecVars, recvVars>>

\* <SendStream as webtransport_generic::SendStream>::reset (lines 122-124):
\* SendStream::reset, its result discarded by `.ok()`.
generic_reset(reset_code) ==
    LET wire == WireCode(reset_code)
        r == inner_reset(wire[1])
        first == r.kind = "Ok" /\ sResetOk = None
    IN  /\ sCall = None
        /\ IF wire = None
           THEN /\ sRes' = Res("generic_reset", "Panic", 0, "", None)
                /\ UNCHANGED <<sState, sResets, sResetOk, sResetAt>>
           ELSE /\ sState' = r.state
                /\ sResets' = r.resets
                /\ sRes' = Ok("generic_reset", 0)
                /\ sResetOk' = IF first THEN Some(reset_code) ELSE sResetOk
                /\ sResetAt' = IF first THEN Len(sSent) ELSE sResetAt
        /\ UNCHANGED <<sStop, sConnLost, sSent, sFinishing, sPeerGot, sPos,
                       sCall, sFinished, sPrio>>
    /\ UNCHANGED <<codecVars, recvVars>>

\* <SendStream as webtransport_generic::SendStream>::set_priority (lines
\* 126-128): SendStream::set_priority, its result discarded by `.ok()`.
generic_set_priority(order) ==
    LET r == inner_set_priority(order)
    IN  /\ sCall = None
        /\ sPrio' = r.prio
        /\ sRes' = [Ok("generic_set_priority", 0) EXCEPT !.arg = order]
        /\ UNCHANGED <<sState, sStop, sConnLost, sSent, sResets, sFinishing,
                       sPeerGot, sPos, sCall, sFinished, sResetOk, sResetAt>>
    /\ UNCHANGED <<codecVars, recvVars>>

PartialWrites == {"write", "write_chunks"}
WholeWrites == {"write_all", "write_chunk", "write_all_chunks"}
WriteOps == PartialWrites \cup WholeWrites \cup {"poll_send"}

\* SendStream::write and write_chunks (lines 43-45, 53-58): the call returns
\* once the engine has taken part of the buffer or has failed; the caller
\* moves on in its data by the count returned.
SendStream_write(op, len) ==
    /\ sCall = None
    /\ \E r \in inner_write(len) :
        /\ r.kind # "Pending"
        /\ sSent' = sSent \o SubSeq(Data, sPos + 1, sPos + r.n)
        /\ sPos' = sPos + r.n
        /\ sRes' = IF r.kind = "Ok" THEN Ok(op, r.n)
                   ELSE Err(op, write_map_err(r.err))
    /\ UNCHANGED <<sState, sStop, sConnLost, sResets, sFinishing, sPeerGot,
                   sCall, sFinished, sResetOk, sResetAt>>
    /\ UNCHANGED <<codecVars, recvVars, sPrio>>

\* SendStream::write_all, write_chunk and write_all_chunks (lines 48-50,
\* 61-68): the call is made with len bytes ...
SendStream_write_all(op, len) ==
    /\ sCall = None
    /\ sCall' = Some([op |-> op, left |-> len])
    /\ UNCHANGED <<sState, sStop, sConnLost, sSent, sResets, sFinishing,
                   sPeerGot, sPos, sRes, sFinished, sResetOk, sResetAt>>
    /\ UNCHANGED <<codecVars, recvVars, sPrio>>

\* ... and is polled until the engine has taken them all or has failed.
SendStream_write_all_poll ==
    /\ sCall # None
    /\ sCall[1].op \in WholeWrites
    /\ \E r \in inner_write(sCall[1].left) :
        /\ r.kind # "Pending"
        /\ sSent' = sSent \o SubSeq(Data, sPos + 1, sPos + r.n)
        /\ sPos' = sPos + r.n
        /\ IF r.kind = "Err"
           THEN /\ sCall' = None
                /\ sRes' = Err(sCall[1].op, write_map_err(r.err))
           ELSE IF r.n = sCall[1].left
           THEN /\ sCall' = None
                /\ sRes' = Ok(sCall[1].op, 0)
           ELSE /\ sCall' = Some([sCall[1] EXCEPT !.left = @ - r.n])
                /\ UNCHANGED sRes
    /\ UNCHANGED <<sState, sStop, sConnLost, sResets, sFinishing, sPeerGot,
                   sFinished, sResetOk, sResetAt>>
    /\ UNCHANGED <<codecVars, recvVars, sPrio>>

\* A finish that reports success without finishing the engine's stream.
SendStream_finish_NoEngine(op) ==
    /\ sCall = None
    /\ sRes' = Ok(op, 0)
    /\ sFinished' = TRUE
    /\ UNCHANGED <<sState, sStop, sConnLost, sSent, sResets, sFinishing,
                   sPeerGot, sPos, sCall, sResetOk, sResetAt>>
    /\ UNCHANGED <<codecVars, recvVars, sPrio>>

\* SendStream::finish (lines 71-73) and poll_finish (lines 118-120): finish
\* is suspended while the engine reports Pending, poll_finish returns it.
SendStream_finish(op) ==
    LET r == inner_poll_finish
    IN  /\ sCall = None \/ (op = "finish" /\ sCall = Some([op |-> op, left |-> 0]))
        /\ sState' = r.state
        /\ sFinishing' = r.finishing
        /\ CASE r.kind = "Pending" /\ op = "finish" ->
                    /\ sCall' = Some([op |-> op, left |-> 0])
                    /\ UNCHANGED <<sRes, sFinished>>
             [] r.kind = "Pending" /\ op # "finish" ->
                    /\ sCall' = None
                    /\ sRes' = Res(op, "Pending", 0, "", None)
                    /\ UNCHANGED sFinished
             [] r.kind = "Ok" ->
                    /\ sCall' = None
                    /\ sRes' = Ok(op, 0)
                    /\ sFinished' = TRUE
             [] OTHER ->
                    /\ sCall' = None
                    /\ sRes' = Err(op, write_map_err(r.err))
                    /\ UNCHANGED sFinished
        /\ UNCHANGED <<sStop, sConnLost, sSent, sResets, sPeerGot, sPos,
                       sResetOk, sResetAt>>
    /\ UNCHANGED <<codecVars, recvVars, sPrio>>

\* The result of a poll_send of a chunk of chunk bytes, for the outcome r of
\* the write (lines 110, 115).
poll_send_res(chunk, r) ==
    [(CASE r.kind = "Ok" -> Ok("poll_send", r.n)
        [] r.kind = "Pending" -> Res("poll_send", "Pending", 0, "", None)
        [] OTHER -> Err("poll_send", write_map_err(r.err)))
     EXCEPT !.arg = chunk]

\* A poll_send that does not advance the buffer.
poll_send_NoAdvance(chunk) ==
    /\ sCall = None
    /\ \E r \in inner_write(chunk) :
        /\ sSent' = sSent \o SubSeq(Data, sPos + 1, sPos + r.n)
        /\ sRes' = poll_send_res(chunk, r)
    /\ UNCHANGED <<sState, sStop, sConnLost, sResets, sFinishing, sPeerGot,
                   sPos, sCall, sFinished, sResetOk, sResetAt>>
    /\ UNCHANGED <<codecVars, recvVars, sPrio>>

\* A poll_send that insists on the whole chunk: when the write accepts a
\* part of it, the part is kept by the stream and the poll reports Pending.
poll_send_Whole(chunk) ==
    /\ sCall = None
    /\ \E r \in inner_write(chunk) :
        /\ sSent' = sSent \o SubSeq(Data, sPos + 1, sPos + r.n)
        /\ sPos' = IF r.kind = "Ok" /\ r.n = chunk THEN sPos + r.n ELSE sPos
        /\ sRes' = IF r.kind = "Ok" /\ r.n < chunk
                   THEN [Res("poll_send", "Pending", 0, "", None)
                         EXCEPT !.arg = chunk]
                   ELSE poll_send_res(chunk, r)
    /\ UNCHANGED <<sState, sStop, sConnLost, sResets, sFinishing, sPeerGot,
                   sCall, sFinished, sResetOk, sResetAt>>
    /\ UNCHANGED <<codecVars, recvVars, sPrio>>

\* <SendStream as webtransport_generic::SendStream>::poll_send (lines
\* 105-116): one write of the buffer's current chunk, of chunk bytes, is
\* polled once and dropped; the buffer is advanced by what an Ok reports.
poll_send(chunk) ==
    /\ sCall = None
    /\ \E r \in inner_write(chunk) :
        /\ sSent' = sSent \o SubSeq(Data, sPos + 1, sPos + r.n)
        /\ sPos' = IF r.kind = "Ok" THEN sPos + r.n ELSE sPos
        /\ sRes' = poll_send_res(chunk, r)
    /\ UNCHANGED <<sState, sStop, sConnLost, sResets, sFinishing, sPeerGot,
                   sCall, sFinished, sResetOk, sResetAt>>
    /\ UNCHANGED <<codecVars, recvVars, sPrio>>

\* The task drops the future it is suspended on.
SendDrop ==
    /\ sCall # None
    /\ sCall' = None
    /\ UNCHANGED <<sState, sStop, sConnLost, sSent, sResets, sFinishing,
                   sPeerGot, sPos, sRes, sFinished, sResetOk, sResetAt>>
    /\ UNCHANGED <<codecVars, recvVars, sPrio>>

\* ---- the peer and the connection

\* The peer's STOP_SENDING arrives: the first one sets the stop reason and
\* fails a finish that is waiting.
PeerStopSending(w) ==
    /\ ~sConnLost
    /\ sState # "Closed"
    /\ sStop = None
    /\ sStop' = Some(w)
    /\ sFinishing' = IF sFinishing = "waiting" THEN "stopped" ELSE sFinishing
    /\ UNCHANGED <<sState, sConnLost, sSent, sResets, sPeerGot, sPos, sCall,
                   sRes, sFinished, sResetOk, sResetAt>>
    /\ UNCHANGED <<codecVars, recvVars, sPrio>>

\* The peer has acknowledged all the data and the FIN of a finished stream:
\* the engine forgets the stream and notifies the finish that is waiting.
FinishAcked ==
    /\ ~sConnLost
    /\ sState = "DataSent"
    /\ sState' = "Closed"
    /\ sFinishing' = IF sFinishing = "waiting" THEN "ok" ELSE sFinishing
    /\ UNCHANGED <<sStop, sConnLost, sSent, sResets, sPeerGot, sPos, sCall,
                   sRes, sFinished, sResetOk, sResetAt>>
    /\ UNCHANGED <<codecVars, recvVars, sPrio>>

\* The peer has acknowledged the RESET_STREAM: the engine forgets the stream.
ResetAcked ==
    /\ ~sConnLost
    /\ sState = "ResetSent"
    /\ sState' = "Closed"
    /\ UNCHANGED <<sStop, sConnLost, sSent, sResets, sFinishing, sPeerGot,
                   sPos, sCall, sRes, sFinished, sResetOk, sResetAt>>
    /\ UNCHANGED <<codecVars, recvVars, sPrio>>

\* The connection fails: a finish that is waiting is told so.
SendConnectionLost ==
    /\ ~sConnLost
    /\ sConnLost' = TRUE
    /\ sFinishing' = IF sFinishing = "waiting" THEN "lost" ELSE sFinishing
    /\ UNCHANGED <<sState, sStop, sSent, sResets, sPeerGot, sPos, sCall,
                   sRes, sFinished, sResetOk, sResetAt>>
    /\ UNCHANGED <<codecVars, recvVars, sPrio>>

\* The peer's application is given the next byte that was sent.
PeerRead ==
    /\ sPeerGot < Len(sSent)
    /\ sPeerGot' = sPeerGot + 1
    /\ UNCHANGED <<sState, sStop, sConnLost, sSent, sResets, sFinishing,
                   sPos, sCall, sRes, sFinished, sResetOk, sResetAt>>
    /\ UNCHANGED <<codecVars, recvVars, sPrio>>

SendNext ==
    \/ \E code \in StreamAppCodes : SendStream_reset(code)
    \/ SendStream_stopped
    \/ \E op \in PartialWrites, len \in 0..(BufLen - sPos) :
            SendStream_write(op, len)
    \/ \E op \in WholeWrites, len \in 1..(BufLen - sPos) :
            SendStream_write_all(op, len)
    \/ SendStream_write_all_poll
    \/ \E op \in {"finish", "poll_finish"} : SendStream_finish(op)
    \/ \E chunk \in 0..(BufLen - sPos) : poll_send(chunk)
    \/ SendDrop
    \/ \E w \in StreamPeerCodes : PeerStopSending(w)
    \/ FinishAcked
    \/ ResetAcked
    \/ SendConnectionLost
    \/ PeerRead

\* ------------------------------------------------------------ RecvStream

\* The peer sends at most PeerLen bytes: byte i has value i.
PeerLen == 2
\* The largest buffer, chunk length and size limit a read is called with.
MaxRead == 2

PeerData == [i \in 1..PeerLen |-> i]
Min(a, b) == IF a < b THEN a ELSE b

\* The bytes that have arrived and wait in the engine: a reset and a stop
\* discard them.
Avail ==
    IF rReset # None \/ rStopOut # <<>> \/ rAllRead THEN <<>>
    ELSE SubSeq(PeerData, Len(rTaken) + 1, pSent)

\* arg is the remaining capacity of the buffer a poll_recv was called with.
RRes(op, kind, n, err, code) ==
    [op |-> op, kind |-> kind, n |-> n, err |-> err, code |-> code, arg |-> 0]
NoRRes == RRes("", "", 0, "", None)

\* crate::ReadError from quinn::ReadError (the `map_err(Into::into)` of lines
\* 153-180): a peer's reset carries the translated code, if it has one.
ReadErrorFrom(e) ==
    CASE e.kind = "Reset" ->
            [kind |-> "Reset", code |-> error_from_http3(e.wire)]
      [] e.kind = "ConnectionLost" -> [kind |-> "SessionError", code |-> None]
      [] e.kind = "UnknownStream" -> [kind |-> "Closed", code |-> None]
      [] OTHER -> [kind |-> e.kind, code |-> None]

\* crate::ReadExactError from quinn::ReadExactError: the early end keeps its
\* own variant, every other failure is the ReadError.
ReadExactErrorFrom(e) ==
    IF e.kind = "FinishedEarly" THEN [kind |-> "FinishedEarly", code |-> None]
    ELSE ReadErrorFrom(e)

\* crate::ReadToEndError from quinn::ReadToEndError: the exceeded limit keeps
\* its own variant, every other failure is the ReadError.
ReadToEndErrorFrom(e) ==
    IF e.kind = "TooLong" THEN [kind |-> "TooLong", code |-> None]
    ELSE ReadErrorFrom(e)

\* The `map_err(Into::into)` of read, read_chunk and read_chunks (lines 153,
\* 170, 175), of read_exact (line 158) and of read_to_end (line 180).
read_map_err_Raw(e) ==
    [kind |-> e.kind, code |-> IF e.kind = "Reset" THEN StoppedCodeRaw(e.wire) ELSE None]
read_map_err(e) == ReadErrorFrom(e)
read_exact_map_err_Generic(e) ==
    IF e.kind = "FinishedEarly" THEN [kind |-> "Closed", code |-> None]
    ELSE ReadErrorFrom(e)
read_exact_map_err(e) == ReadExactErrorFrom(e)
read_to_end_map_err_Generic(e) ==
    IF e.kind = "TooLong" THEN [kind |-> "Closed", code |-> None]
    ELSE ReadErrorFrom(e)
read_to_end_map_err(e) == ReadToEndErrorFrom(e)

RecvInit ==
    /\ pSent = 0
    /\ rFin = FALSE
    /\ rReset = None
    /\ rStopOut = <<>>
    /\ rAllRead = FALSE
    /\ rUnordered = FALSE
    /\ rConnLost = FALSE
    /\ rSticky \in BOOLEAN
    /\ rTaken = <<>>
    /\ rCall = None
    /\ rRes = NoRRes
    /\ rOut = <<>>
    /\ rTick = 0
    /\ rAhead = {}

\* ---- the engine's receive half (quinn::RecvStream)

\* quinn::RecvStream::stop: refused on a handle that has seen its end or was
\* stopped; otherwise unread data is discarded, the handle is at its end, and
\* STOP_SENDING is sent unless the peer has reset the stream already.
inner_stop(wire) ==
    IF rAllRead
    THEN [kind |-> "Err", out |-> rStopOut, allread |-> TRUE]
    ELSE [kind |-> "Ok", allread |-> TRUE,
          out |-> IF rReset = None THEN Append(rStopOut, wire) ELSE rStopOut]

\* One poll of a read of at most max bytes (quinn's poll_read_generic): the
\* outcomes it may have. greedy: the read fills its buffer with all that is
\* there (read), otherwise it returns one chunk of the stream (read_chunk),
\* which is empty when max is 0.
inner_read(ordered, max, greedy) ==
    IF rAllRead
    THEN {IF rSticky
          THEN [kind |-> "End", n |-> 0, err |-> QErr(""), allread |-> TRUE]
          ELSE [kind |-> "Err", n |-> 0, err |-> QErr("UnknownStream"),
                allread |-> TRUE]}
    ELSE IF ordered /\ rUnordered
    THEN {[kind |-> "Err", n |-> 0, err |-> QErr("IllegalOrderedRead"),
           allread |-> FALSE]}
    ELSE IF rReset # None
    THEN {[kind |-> "Err", n |-> 0, err |-> QCode("Reset", rReset[1]),
           allread |-> TRUE]}
    ELSE IF Len(Avail) > 0
    THEN {[kind |-> "Data", n |-> n, err |-> QErr(""), allread |-> FALSE] :
            n \in (IF greedy \/ max = 0 THEN {Min(max, Len(Avail))}
                   ELSE 1..Min(max, Len(Avail)))}
    ELSE IF rFin
    THEN {[kind |-> "End", n |-> 0, err |-> QErr(""), allread |-> TRUE]}
    ELSE IF rConnLost
    THEN {[kind |-> "Err", n |-> 0, err |-> QErr("ConnectionLost"),
           allread |-> FALSE]}
    ELSE {[kind |-> "Pending", n |-> 0, err |-> QErr(""), allread |-> FALSE]}

\* ---- the wrapper (stream.rs)

\* RecvStream::stop (lines 143-147).
RecvStream_stop(code) ==
    LET wire == WireCode(code)
        r == inner_stop(wire[1])
    IN  /\ rCall = None
        /\ IF wire = None
           THEN /\ rRes' = RRes("stop", "Panic", 0, "", None)
                /\ UNCHANGED <<rStopOut, rAllRead>>
           ELSE /\ rStopOut' = r.out
                /\ rAllRead' = r.allread
                /\ rRes' = IF r.kind = "Ok"
                           THEN RRes("stop", "Ok", 0, "", None)
                           ELSE RRes("stop", "Err", 0, "UnknownStream", None)
        /\ rOut' = <<>>
        /\ rTick' = 1 - rTick
        /\ UNCHANGED <<pSent, rFin, rReset, rUnordered, rConnLost, rSticky,
                       rTaken, rCall>>
    /\ UNCHANGED <<codecVars, sendVars, rAhead>>

\* A generic stop that unwraps the result of the stop.
generic_stop_Unwrap(error_code) ==
    LET r == inner_stop(WireCode(error_code)[1])
    IN  /\ rCall = None
        /\ rStopOut' = r.out
        /\ rAllRead' = r.allread
        /\ rRes' = IF r.kind = "Ok"
                   THEN RRes("generic_stop", "Ok", 0, "", None)
                   ELSE RRes("generic_stop", "Panic", 0, "", None)
        /\ rOut' = <<>>
        /\ rTick' = 1 - rTick
        /\ UNCHANGED <<pSent, rFin, rReset, rUnordered, rConnLost, rSticky,
                       rTaken, rCall>>
    /\ UNCHANGED <<codecVars, sendVars, rAhead>>

\* <RecvStream as webtransport_generic::RecvStream>::stop (lines 224-226):
\* RecvStream::stop, its result discarded by `.ok()`.
generic_stop(error_code) ==
    LET wire == WireCode(error_code)
        r == inner_stop(wire[1])
    IN  /\ rCall = None
        /\ IF wire = None
           THEN /\ rRes' = RRes("generic_stop", "Panic", 0, "", None)
                /\ UNCHANGED <<rStopOut, rAllRead>>
           ELSE /\ rStopOut' = r.out
                /\ rAllRead' = r.allread
                /\ rRes' = RRes("generic_stop", "Ok", 0, "", None)
        /\ rOut' = <<>>
        /\ rTick' = 1 - rTick
        /\ UNCHANGED <<pSent, rFin, rReset, rUnordered, rConnLost, rSticky,
                       rTaken, rCall>>
    /\ UNCHANGED <<codecVars, sendVars, rAhead>>

PartialReads == {"read", "read_chunk", "read_chunks"}

\* RecvStream::read, read_chunk and read_chunks (lines 152-154, 162-176):
\* the call returns once the engine has data, the end or an error.
RecvStream_read(op, max) ==
    /\ rCall = None
    /\ \E r \in inner_read(TRUE, max, op = "read") :
        /\ r.kind # "Pending"
        /\ rAllRead' = r.allread
        /\ rOut' = SubSeq(Avail, 1, r.n)
        /\ rTaken' = rTaken \o SubSeq(Avail, 1, r.n)
        /\ rRes' = CASE r.kind = "Data" -> RRes(op, "Ok", r.n, "", None)
                     [] r.kind = "End" -> RRes(op, "Ok", 0, "End", None)
                     [] OTHER ->
                            LET e == read_map_err(r.err)
                            IN  RRes(op, "Err", 0, e.kind, e.code)
    /\ rTick' = 1 - rTick
    /\ UNCHANGED <<pSent, rFin, rReset, rStopOut, rUnordered, rConnLost,
                   rSticky, rCall>>
    /\ UNCHANGED <<codecVars, sendVars, rAhead>>

\* The positions whose bytes have arrived and have not been taken.
Unread ==
    IF rReset # None \/ rStopOut # <<>> \/ rAllRead THEN {}
    ELSE ((1..pSent) \cup rAhead) \ {rTaken[i] : i \in DOMAIN rTaken}

\* The length of the run of unread bytes that starts at position p.
RunFrom(p) == CHOOSE n \in 1..PeerLen :
    /\ p..(p + n - 1) \subseteq Unread
    /\ p + n \notin Unread

\* One poll of an unordered read of one chunk of at most max bytes (quinn's
\* poll_read_generic with ordered = false): the assembler hands out the
\* unread chunk at the lowest offset, whether the bytes before it have
\* arrived or not.
inner_read_unordered(max) ==
    IF rAllRead
    THEN {IF rSticky
          THEN [kind |-> "End", n |-> 0, from |-> 0, err |-> QErr(""),
                allread |-> TRUE]
          ELSE [kind |-> "Err", n |-> 0, from |-> 0,
                err |-> QErr("UnknownStream"), allread |-> TRUE]}
    ELSE IF rReset # None
    THEN {[kind |-> "Err", n |-> 0, from |-> 0,
           err |-> QCode("Reset", rReset[1]), allread |-> TRUE]}
    ELSE IF Unread # {}
    THEN LET p == CHOOSE q \in Unread : \A o \in Unread : q <= o
         IN  {[kind |-> "Data", n |-> n, from |-> p, err |-> QErr(""),
               allread |-> FALSE] : n \in 1..Min(max, RunFrom(p))}
    ELSE IF rFin
    THEN {[kind |-> "End", n |-> 0, from |-> 0, err |-> QErr(""),
           allread |-> TRUE]}
    ELSE IF rConnLost
    THEN {[kind |-> "Err", n |-> 0, from |-> 0, err |-> QErr("ConnectionLost"),
           allread |-> FALSE]}
    ELSE {[kind |-> "Pending", n |-> 0, from |-> 0, err |-> QErr(""),
           allread |-> FALSE]}

\* RecvStream::read_chunk with ordered = false (lines 162-171): the call
\* returns once the engine has a chunk, the end or an error.
RecvStream_read_chunk_unordered(max) ==
    /\ rCall = None
    /\ \E r \in inner_read_unordered(max) :
        /\ r.kind # "Pending"
        /\ rAllRead' = r.allread
        /\ rUnordered' = (rUnordered \/ ~rAllRead)
        /\ rOut' = SubSeq(PeerData, r.from, r.from + r.n - 1)
        /\ rTaken' = rTaken \o SubSeq(PeerData, r.from, r.from + r.n - 1)
        /\ rRes' = CASE r.kind = "Data" ->
                            RRes("read_chunk", "Ok", r.n, "", None)
                     [] r.kind = "End" ->
                            RRes("read_chunk", "Ok", 0, "End", None)
                     [] OTHER ->
                            LET e == read_map_err(r.err)
                            IN  RRes("read_chunk", "Err", 0, e.kind, e.code)
    /\ rTick' = 1 - rTick
    /\ UNCHANGED <<pSent, rFin, rReset, rStopOut, rConnLost, rSticky, rCall,
                   rAhead>>
    /\ UNCHANGED <<codecVars, sendVars>>

\* The result of a poll_recv into a buffer with cap bytes left, for the
\* outcome r of the read_chunk (lines 212-220).
poll_recv_res(cap, r) ==
    [(CASE r.kind = "Data" -> RRes("poll_recv", "Ok", r.n, "", None)
        [] r.kind = "End" -> RRes("poll_recv", "Ok", 0, "End", None)
        [] r.kind = "Pending" -> RRes("poll_recv", "Pending", 0, "", None)
        [] OTHER -> LET e == read_map_err(r.err)
                    IN  RRes("poll_recv", "Err", 0, e.kind, e.code))
     EXCEPT !.arg = cap]

\* A poll_recv that asks for a chunk of any length.
poll_recv_Unbounded(cap) ==
    /\ rCall = None
    /\ \E r \in inner_read(TRUE, PeerLen, FALSE) :
        /\ rAllRead' = r.allread
        /\ rOut' = SubSeq(Avail, 1, r.n)
        /\ rTaken' = rTaken \o SubSeq(Avail, 1, r.n)
        /\ rRes' = poll_recv_res(cap, r)
    /\ rTick' = 1 - rTick
    /\ UNCHANGED <<pSent, rFin, rReset, rStopOut, rUnordered, rConnLost,
                   rSticky, rCall>>
    /\ UNCHANGED <<codecVars, sendVars, rAhead>>

\* A poll_recv that takes the chunk out of the stream and hands over none
\* of it.
poll_recv_NoPut(cap) ==
    /\ rCall = None
    /\ \E r \in inner_read(TRUE, cap, FALSE) :
        /\ rAllRead' = r.allread
        /\ rOut' = <<>>
        /\ rTaken' = rTaken \o SubSeq(Avail, 1, r.n)
        /\ rRes' = poll_recv_res(cap, r)
    /\ rTick' = 1 - rTick
    /\ UNCHANGED <<pSent, rFin, rReset, rStopOut, rUnordered, rConnLost,
                   rSticky, rCall>>
    /\ UNCHANGED <<codecVars, sendVars, rAhead>>

\* A poll_recv that asks for its chunk with ordered = false.
poll_recv_Unordered(cap) ==
    /\ rCall = None
    /\ \E r \in inner_read_unordered(cap) :
        /\ rAllRead' = r.allread
        /\ rUnordered' = (rUnordered \/ ~rAllRead)
        /\ rOut' = SubSeq(PeerData, r.from, r.from + r.n - 1)
        /\ rTaken' = rTaken \o SubSeq(PeerData, r.from, r.from + r.n - 1)
        /\ rRes' = poll_recv_res(cap, r)
    /\ rTick' = 1 - rTick
    /\ UNCHANGED <<pSent, rFin, rReset, rStopOut, rConnLost, rSticky, rCall,
                   rAhead>>
    /\ UNCHANGED <<codecVars, sendVars>>

\* <RecvStream as webtransport_generic::RecvStream>::poll_recv (lines
\* 204-221): one ordered read_chunk of at most the buffer's remaining
\* capacity, cap, is polled once and dropped; the chunk it returns is
\* appended to the buffer (rOut is what was appended).
poll_recv(cap) ==
    /\ rCall = None
    /\ \E r \in inner_read(TRUE, cap, FALSE) :
        /\ rAllRead' = r.allread
        /\ rOut' = SubSeq(Avail, 1, r.n)
        /\ rTaken' = rTaken \o SubSeq(Avail, 1, r.n)
        /\ rRes' = poll_recv_res(cap, r)
    /\ rTick' = 1 - rTick
    /\ UNCHANGED <<pSent, rFin, rReset, rStopOut, rUnordered, rConnLost,
                   rSticky, rCall>>
    /\ UNCHANGED <<codecVars, sendVars, rAhead>>

\* RecvStream::read_exact and read_to_end are called (lines 157-159,
\* 179-181): arg is the length of the buffer, or the size limit ...
RecvStream_call(op, arg) ==
    /\ rCall = None
    /\ rCall' = Some([op |-> op, arg |-> arg, got |-> <<>>])
    /\ UNCHANGED <<pSent, rFin, rReset, rStopOut, rAllRead, rUnordered,
                   rConnLost, rSticky, rTaken, rRes, rOut, rTick>>
    /\ UNCHANGED <<codecVars, sendVars, rAhead>>

\* quinn's ReadExact future, polled once: reads into the rest of the buffer
\* until it is full; a read that adds nothing is the early end, reported
\* with the number of bytes read. n is what this poll takes.
inner_read_exact(c) ==
    LET want == c.arg - Len(c.got)
        r == CHOOSE x \in inner_read(TRUE, want, TRUE) : TRUE
        early == [r EXCEPT !.kind = "Err", !.err = QErr("FinishedEarly"),
                           !.allread = TRUE]
    IN  IF want = 0
        THEN [kind |-> "Ok", n |-> 0, err |-> QErr(""), allread |-> rAllRead]
        ELSE IF r.kind = "End" THEN early
        ELSE IF r.kind # "Data" THEN r
        ELSE IF r.n = want THEN [r EXCEPT !.kind = "Ok"]
        \* the buffer is not full and the engine has no more data
        ELSE IF rFin THEN early
        ELSE IF rConnLost
        THEN [r EXCEPT !.kind = "Err", !.err = QErr("ConnectionLost")]
        ELSE [r EXCEPT !.kind = "Pending"]

\* ... read_exact is polled (lines 157-159).
RecvStream_read_exact ==
    /\ rCall # None
    /\ rCall[1].op = "read_exact"
    /\ LET r == inner_read_exact(rCall[1])
           got == rCall[1].got \o SubSeq(Avail, 1, r.n)
       IN  /\ rAllRead' = r.allread
           /\ rTaken' = rTaken \o SubSeq(Avail, 1, r.n)
           /\ IF r.kind = "Pending"
              THEN /\ rCall' = Some([rCall[1] EXCEPT !.got = got])
                   /\ UNCHANGED <<rRes, rOut, rTick>>
              ELSE /\ rCall' = None
                   /\ rTick' = 1 - rTick
                   /\ rOut' = IF r.kind = "Ok" THEN got ELSE <<>>
                   /\ rRes' =
                        IF r.kind = "Ok"
                        THEN RRes("read_exact", "Ok", Len(got), "", None)
                        ELSE LET e == read_exact_map_err(r.err)
                             IN  RRes("read_exact", "Err",
                                      IF e.kind = "FinishedEarly"
                                      THEN Len(got) ELSE 0,
                                      e.kind, e.code)
    /\ UNCHANGED <<pSent, rFin, rReset, rStopOut, rUnordered, rConnLost,
                   rSticky>>
    /\ UNCHANGED <<codecVars, sendVars, rAhead>>

\* quinn's ReadToEnd future, polled once: unordered reads of every chunk that
\* is there; TooLong as soon as the chunks reach past the limit.
inner_read_to_end(c) ==
    LET first == CHOOSE r \in inner_read(FALSE, PeerLen, TRUE) : TRUE
        total == Len(c.got) + first.n
    IN  IF first.kind = "End" THEN [first EXCEPT !.kind = "Ok"]
        ELSE IF first.kind # "Data" THEN first
        ELSE IF total > c.arg
        THEN [first EXCEPT !.kind = "Err", !.err = QErr("TooLong")]
        ELSE IF rFin THEN [first EXCEPT !.kind = "Ok", !.allread = TRUE]
        ELSE IF rConnLost
        THEN [first EXCEPT !.kind = "Err", !.err = QErr("ConnectionLost")]
        ELSE [first EXCEPT !.kind = "Pending"]

\* ... read_to_end is polled (lines 179-181).
RecvStream_read_to_end ==
    /\ rCall # None
    /\ rCall[1].op = "read_to_end"
    /\ LET r == inner_read_to_end(rCall[1])
           got == rCall[1].got \o SubSeq(Avail, 1, r.n)
       IN  /\ rAllRead' = r.allread
           /\ rUnordered' = (rUnordered \/ ~rAllRead)
           /\ rTaken' = rTaken \o SubSeq(Avail, 1, r.n)
           /\ IF r.kind = "Pending"
              THEN /\ rCall' = Some([rCall[1] EXCEPT !.got = got])
                   /\ UNCHANGED <<rRes, rOut, rTick>>
              ELSE /\ rCall' = None
                   /\ rTick' = 1 - rTick
                   /\ rOut' = IF r.kind = "Ok" THEN got ELSE <<>>
                   /\ rRes' =
                        IF r.kind = "Ok"
                        THEN RRes("read_to_end", "Ok", Len(got), "", None)
                        ELSE LET e == read_to_end_map_err(r.err)
                             IN  RRes("read_to_end", "Err", 0, e.kind, e.code)
    /\ UNCHANGED <<pSent, rFin, rReset, rStopOut, rConnLost, rSticky>>
    /\ UNCHANGED <<codecVars, sendVars, rAhead>>

\* The task drops the future it is suspended on; what the future had read is
\* lost with it.
RecvDrop ==
    /\ rCall # None
    /\ rCall' = None
    /\ UNCHANGED <<pSent, rFin, rReset, rStopOut, rAllRead, rUnordered,
                   rConnLost, rSticky, rTaken, rRes, rOut, rTick>>
    /\ UNCHANGED <<codecVars, sendVars, rAhead>>

\* ---- the peer and the connection

\* The end of the run of arrived bytes that starts at position k.
Joined(k) ==
    CHOOSE m \in k..PeerLen :
        /\ (k + 1)..m \subseteq rAhead
        /\ m + 1 \notin rAhead

\* The next byte of the peer arrives, and joins the bytes that arrived
\* ahead of it.
PeerWrite ==
    /\ ~rConnLost /\ ~rFin /\ rReset = None
    /\ pSent < PeerLen
    /\ pSent' = Joined(pSent + 1)
    /\ rAhead' = {p \in rAhead : p > pSent'}
    /\ UNCHANGED <<rFin, rReset, rStopOut, rAllRead, rUnordered, rConnLost,
                   rSticky, rTaken, rCall, rRes, rOut, rTick>>
    /\ UNCHANGED <<codecVars, sendVars>>

\* A byte of the peer arrives ahead of the byte before it: the network
\* reorders packets.
PeerWriteAhead ==
    /\ ~rConnLost /\ ~rFin /\ rReset = None
    /\ \E p \in (pSent + 2)..PeerLen :
        /\ p \notin rAhead
        /\ rAhead' = rAhead \cup {p}
    /\ UNCHANGED <<pSent, rFin, rReset, rStopOut, rAllRead, rUnordered,
                   rConnLost, rSticky, rTaken, rCall, rRes, rOut, rTick>>
    /\ UNCHANGED <<codecVars, sendVars>>

\* The peer's FIN arrives, after all it sent: it sent pSent bytes and
\* finished.
PeerFinish ==
    /\ ~rConnLost /\ ~rFin /\ rReset = None
    /\ rAhead = {}
    /\ rFin' = TRUE
    /\ UNCHANGED <<pSent, rReset, rStopOut, rAllRead, rUnordered, rConnLost,
                   rSticky, rTaken, rCall, rRes, rOut, rTick>>
    /\ UNCHANGED <<codecVars, sendVars, rAhead>>

\* The peer's RESET_STREAM arrives, of its own accord or in answer to a
\* STOP_SENDING.
PeerReset(w) ==
    /\ ~rConnLost /\ ~rFin /\ rReset = None
    /\ rReset' = Some(w)
    /\ UNCHANGED <<pSent, rFin, rStopOut, rAllRead, rUnordered, rConnLost,
                   rSticky, rTaken, rCall, rRes, rOut, rTick>>
    /\ UNCHANGED <<codecVars, sendVars, rAhead>>

RecvConnectionLost ==
    /\ ~rConnLost
    /\ rConnLost' = TRUE
    /\ UNCHANGED <<pSent, rFin, rReset, rStopOut, rAllRead, rUnordered,
                   rSticky, rTaken, rCall, rRes, rOut, rTick>>
    /\ UNCHANGED <<codecVars, sendVars, rAhead>>

RecvNext ==
    \/ \E code \in StreamAppCodes : RecvStream_stop(code)
    \/ \E op \in PartialReads, max \in 1..MaxRead : RecvStream_read(op, max)
    \/ \E cap \in 0..MaxRead : poll_recv(cap)
    \/ \E op \in {"read_exact", "read_to_end"}, arg \in 0..MaxRead :
            RecvStream_call(op, arg)
    \/ RecvStream_read_exact
    \/ RecvStream_read_to_end
    \/ RecvDrop
    \/ PeerWrite
    \/ PeerFinish
    \/ \E w \in StreamPeerCodes : PeerReset(w)
    \/ RecvConnectionLost

\* ---------------------------------------------------- the specifications

Init == CodecInit /\ SendInit /\ RecvInit

CodecSpecInit == Init /\ rSticky = TRUE
CodecSpec == CodecSpecInit /\ [][CodecNext]_vars

SendSpecInit == Init /\ rSticky = TRUE
SendSpec == SendSpecInit /\ [][SendNext]_vars

RecvSpec == Init /\ [][RecvNext]_vars

\* Both handles of a bidirectional stream, of which the application uses
\* one: the two halves share no state, neither in stream.rs nor in the
\* engine, so that what holds of each half used alone holds of both used
\* together.
StreamsNext ==
    \/ RecvInit /\ rSticky /\ SendNext
    \/ SendInit /\ RecvNext

StreamsSpec == Init /\ [][StreamsNext]_vars

\* The operations that never wait (reset, stop, the priority) and their
\* fire-and-forget forms, in every state a stream can be brought to by
\* finish, reset, stopped(), the polls of the generic interface, the peer
\* and the connection. One handle is in use at a time.
SendIdle == RecvInit /\ rSticky
RecvIdle == SendInit

GenericNext ==
    \/ \E code \in StreamAppCodes : SendIdle /\ SendStream_reset(code)
    \/ \E code \in StreamAppCodes : SendIdle /\ generic_reset(code)
    \/ \E order \in PrioOrders : SendIdle /\ SendStream_set_priority(order)
    \/ \E order \in PrioOrders : SendIdle /\ generic_set_priority(order)
    \/ SendIdle /\ SendStream_priority
    \/ SendIdle /\ SendStream_stopped
    \/ \E op \in {"finish", "poll_finish"} : SendIdle /\ SendStream_finish(op)
    \/ \E chunk \in 0..(BufLen - sPos) : SendIdle /\ poll_send(chunk)
    \/ SendIdle /\ SendDrop
    \/ \E w \in StreamPeerCodes : SendIdle /\ PeerStopSending(w)
    \/ SendIdle /\ FinishAcked
    \/ SendIdle /\ ResetAcked
    \/ SendIdle /\ SendConnectionLost
    \/ \E code \in StreamAppCodes : RecvIdle /\ RecvStream_stop(code)
    \/ \E code \in StreamAppCodes : RecvIdle /\ generic_stop(code)
    \/ \E cap \in 0..MaxRead : RecvIdle /\ poll_recv(cap)
    \/ RecvIdle /\ PeerWrite
    \/ RecvIdle /\ PeerFinish
    \/ \E w \in StreamPeerCodes : RecvIdle /\ PeerReset(w)
    \/ RecvIdle /\ RecvConnectionLost

GenericSpec == Init /\ [][GenericNext]_vars

\* The byte-transfer operations that hand over part of the data (write and
\* its chunked forms, poll_send; read and its chunked forms, ordered and
\* unordered, poll_recv) over a network that reorders what the peer sent.
\* One handle is in use at a time.
OrderNext ==
    \/ \E op \in PartialWrites, len \in 0..(BufLen - sPos) :
            SendIdle /\ SendStream_write(op, len)
    \/ \E chunk \in 0..(BufLen - sPos) : SendIdle /\ poll_send(chunk)
    \/ \E w \in StreamPeerCodes : SendIdle /\ PeerStopSending(w)
    \/ SendIdle /\ SendConnectionLost
    \/ SendIdle /\ PeerRead
    \/ \E op \in PartialReads, max \in 1..MaxRead :
            RecvIdle /\ RecvStream_read(op, max)
    \/ \E max \in 1..MaxRead : RecvIdle /\ RecvStream_read_chunk_unordered(max)
    \/ \E cap \in 0..MaxRead : RecvIdle /\ poll_recv(cap)
    \/ RecvIdle /\ PeerWrite
    \/ RecvIdle /\ PeerWriteAhead
    \/ RecvIdle /\ PeerFinish
    \/ \E w \in StreamPeerCodes : RecvIdle /\ PeerReset(w)
    \/ RecvIdle /\ RecvConnectionLost

OrderSpec == Init /\ [][OrderNext]_vars

\* ------------------------------------------------------------ properties

\* The reserved sub-space of the HTTP/3 error codes: ERROR_FIRST..ERROR_LAST.
InReserved(w) == ~Less(w, ERROR_FIRST) /\ ~Less(ERROR_LAST, w)

\* C1: a code passed to reset or stop, translated, carried to the peer and
\* decoded there is recovered unchanged: from_wire(to_wire(c)) = Some(c).
C1_RoundTrip ==
    (cPhase = "decoded" /\ cApp # None) => cOut = cApp

C1_Witness ==
    cPhase = "decoded" /\ cApp = Some(U32_MAX) /\ cOut = Some(U32_MAX)

\* C2: the wire code of every application code lies inside the reserved
\* sub-space, and a wire code outside it decodes to None.
C2_DomainExclusion ==
    /\ (cPhase \in {"wire", "decoded"} /\ cApp # None) => InReserved(cWire)
    /\ (cPhase = "decoded" /\ ~InReserved(cWire)) => cOut = None

C2_Witness ==
    /\ cPhase = "decoded"
    /\ cWire = Add(ERROR_LAST, Small(1))
    /\ cOut = None

\* C3: a wire code decodes to Some(c) exactly when it is the translation of
\* an application code, and then to that code; a reserved gap code inside
\* the range is the translation of none and decodes to None.
C3_ImageOnly ==
    cPhase = "decoded" =>
        /\ cOut # None <=> \E c \in AppCodes : error_to_http3(c) = cWire
        /\ cOut # None =>
                /\ ~Less(U32_MAX, cOut[1])
                /\ error_to_http3(cOut[1]) = cWire

C3_Witness ==
    /\ cPhase = "decoded"
    /\ cWire = Add(ERROR_FIRST, Small(GapPeriod - 1))
    /\ cOut = None

\* A call of the send side returns in this step.
SendReturns == sRes'.tick # sRes.tick

\* C4: once finish or poll_finish has returned Ok, the engine accepts no
\* more bytes and every write, write_all, write_chunk(s), write_all_chunks
\* and poll_send that returns reports an error.
C4_NoWriteAfterFinish ==
    [][sFinished =>
            /\ sSent' = sSent
            /\ (SendReturns /\ sRes'.op \in WriteOps) => sRes'.kind = "Err"]_vars

C4_Witness ==
    /\ sFinished
    /\ sRes.op = "poll_send"
    /\ sRes.kind = "Err"
    /\ sRes.err = "Closed"

\* C9: after a reset has returned Ok the engine accepts no byte beyond those
\* it had accepted at the reset, the peer is given none beyond them, and a
\* stopped() that wakes up afterwards reports the peer's code and no data.
C9_NothingBeyondReset ==
    sResetOk # None =>
        /\ Len(sSent) = sResetAt
        /\ sPeerGot <= sResetAt
        /\ (sRes.op = "stopped" /\ sRes.kind = "Ok") =>
                /\ sRes.n = 0
                /\ sStop # None
                /\ sRes.code = error_from_http3(sStop[1])

C9_Witness ==
    /\ sResetOk # None
    /\ sResetAt = 1
    /\ sPeerGot = 1
    /\ sPos = 1
    /\ sRes.op = "stopped"
    /\ sRes.kind = "Ok"

\* C10: a reset of a stream the engine still holds unreset (written to, or
\* finishing and not yet acknowledged) returns Ok and issues one RESET_STREAM
\* with the translated code; a reset after a completed finish or after a
\* reset returns StreamClosed and issues none: at most one RESET_STREAM is
\* ever issued, and its code never changes.
C10_Inv ==
    /\ Len(sResets) <= 1
    /\ sResetOk = None => sResets = <<>>
    /\ sResetOk # None => sResets = <<error_to_http3(sResetOk[1])>>
    /\ sFinished => sState = "Closed"

C10_Act ==
    /\ sResets # <<>> => sResets' = sResets
    /\ (SendReturns /\ sRes'.op = "reset") =>
            IF sFinished \/ sResetOk # None \/ sState \in {"ResetSent", "Closed"}
            THEN /\ sRes'.kind = "Err"
                 /\ sRes'.err = "StreamClosed"
                 /\ sResets' = sResets
            ELSE /\ sRes'.kind = "Ok"
                 /\ Len(sResets') = 1

C10_ResetOneShot == []C10_Inv /\ [][C10_Act]_vars

C10_Witness ==
    /\ sRes.op = "reset"
    /\ sRes.kind = "Err"
    /\ sRes.err = "StreamClosed"
    /\ sResets = <<error_to_http3(U32_MAX)>>

\* A call of the receive side returns in this step.
RecvReturns == rTick' # rTick

\* What the call that is polled had to read: the bytes the peer sent after
\* those taken before the call was made.
CallFrom == Len(rTaken) - Len(rCall[1].got)
CallHas == pSent - CallFrom

\* C5 as stated: after stop(c), answered by the peer's reset with the
\* translation of c, a read resolves to a ReadError carrying Some(c).
C5_Original ==
    [][(/\ RecvReturns
        /\ rRes'.op = "read"
        /\ rStopOut # <<>>
        /\ rReset = Some(rStopOut[1]))
            => /\ rRes'.kind = "Err"
               /\ rRes'.err = "Reset"
               /\ rRes'.code # None
               /\ error_to_http3(rRes'.code[1]) = rStopOut[1]]_vars

\* C5, amended: on a RecvStream that was not stopped, has not reported its
\* end or a reset, and was read in order, a read that returns after the
\* peer's reset with the translation of c is a ReadError carrying Some(c),
\* with no data; after stop the handle is at its end, and a read returns no
\* data and no code.
C5_ResetAfterStop ==
    [][(RecvReturns /\ rRes'.op \in PartialReads) =>
            /\ (rReset # None /\ ~rAllRead /\ ~rUnordered) =>
                    /\ rRes'.kind = "Err"
                    /\ rRes'.err = "Reset"
                    /\ rOut' = <<>>
                    /\ \A c \in StreamAppCodes :
                            rReset[1] = error_to_http3(c) => rRes'.code = Some(c)
            /\ rStopOut # <<>> =>
                    /\ rOut' = <<>>
                    /\ rRes'.code = None
                    /\ rRes'.err \in {"End", "Closed"}]_vars

C5_Witness ==
    /\ rRes.op = "read"
    /\ rRes.kind = "Err"
    /\ rRes.err = "Reset"
    /\ rRes.code = Some(Small(42))
    /\ rReset = Some(error_to_http3(Small(42)))
    /\ rStopOut = <<>>

\* The code that comes with a result is None or an application code whose
\* translation is the wire code w, and None if w is outside the reserved
\* sub-space.
Genuine(code, w) ==
    /\ code # None =>
            /\ ~Less(U32_MAX, code[1])
            /\ error_to_http3(code[1]) = w
    /\ ~InReserved(w) => code = None

\* C6: a code that comes with a read error, with stopped() or with a write
\* error is the application code whose translation the peer sent, and None
\* when the peer's code is outside the reserved sub-space; a read that meets
\* such a reset fails with a ReadError carrying None.
C6_Inv ==
    /\ IF rRes.kind = "Err" /\ rRes.err = "Reset"
       THEN rReset # None /\ Genuine(rRes.code, rReset[1])
       ELSE rRes.code = None
    /\ IF \/ sRes.op = "stopped" /\ sRes.kind = "Ok"
          \/ sRes.kind = "Err" /\ sRes.err = "Stopped"
       THEN sStop # None /\ Genuine(sRes.code, sStop[1])
       ELSE sRes.code = None

C6_Act ==
    (/\ RecvReturns
     /\ rRes'.op \in PartialReads
     /\ rReset # None
     /\ ~InReserved(rReset[1])
     /\ ~rAllRead /\ ~rUnordered)
        => /\ rRes'.kind = "Err"
           /\ rRes'.err = "Reset"
           /\ rRes'.code = None

C6_NoFabricatedCode == []C6_Inv /\ [][C6_Act]_vars

C6_Witness ==
    /\ rRes.op = "read"
    /\ rRes.kind = "Err"
    /\ rRes.err = "Reset"
    /\ rRes.code = None
    /\ rReset = Some(Small(256))

\* C7: a read_exact of N bytes that returns when the peer has sent M < N
\* bytes for it and has finished fails with FinishedEarly carrying M; and
\* FinishedEarly is only ever reported with fewer than N bytes read.
C7_ShortRead ==
    [][(RecvReturns /\ rRes'.op = "read_exact") =>
            /\ (~rAllRead /\ ~rUnordered /\ rFin /\ CallHas < rCall[1].arg) =>
                    /\ rRes'.kind = "Err"
                    /\ rRes'.err = "FinishedEarly"
                    /\ rRes'.n = CallHas
            /\ rRes'.err = "FinishedEarly" =>
                    /\ rRes'.kind = "Err"
                    /\ rRes'.n < rCall[1].arg]_vars

C7_Witness ==
    /\ rRes.op = "read_exact"
    /\ rRes.err = "FinishedEarly"
    /\ rRes.n = 1
    /\ pSent = 1
    /\ rFin

\* C8: a read_to_end with limit L that returns when the peer has sent more
\* than L bytes for it fails with TooLong and hands over no data; when the
\* peer has sent at most L bytes and has finished it returns exactly those
\* bytes; no Ok ever carries more than L bytes.
C8_LimitExceeded ==
    [][(RecvReturns /\ rRes'.op = "read_to_end") =>
            /\ (~rAllRead /\ rReset = None /\ CallHas > rCall[1].arg) =>
                    /\ rRes'.kind = "Err"
                    /\ rRes'.err = "TooLong"
            /\ (~rAllRead /\ rFin /\ CallHas <= rCall[1].arg) =>
                    /\ rRes'.kind = "Ok"
                    /\ rOut' = SubSeq(PeerData, CallFrom + 1, pSent)
            /\ rRes'.kind = "Ok" => Len(rOut') <= rCall[1].arg
            /\ rRes'.kind = "Err" => rOut' = <<>>]_vars

C8_Witness ==
    /\ rRes.op = "read_to_end"
    /\ rRes.err = "TooLong"
    /\ pSent = 2
    /\ rOut = <<>>

FailingOps == WriteOps \cup {"finish", "poll_finish"}

\* C12 as stated: after the peer's STOP_SENDING with wire code w every write
\* of the family and finish fails with a WriteError carrying from_wire(w).
C12_Original ==
    [][(sStop # None /\ SendReturns /\ sRes'.op \in FailingOps) =>
            /\ sRes'.kind = "Err"
            /\ sRes'.code = error_from_http3(sStop[1])]_vars

\* C12, amended: after the peer's STOP_SENDING with wire code w every write
\* of the family and finish that returns fails with a WriteError; it is the
\* Stopped error carrying from_wire(w) while the connection is up and the
\* stream was neither finished nor reset here, and otherwise Stopped with
\* from_wire(w) or the session's or the closed stream's error with no code.
C12_StoppedWrites ==
    [][(sStop # None /\ SendReturns /\ sRes'.op \in FailingOps) =>
            /\ sRes'.kind = "Err"
            /\ sRes'.err \in {"Stopped", "SessionError", "Closed"}
            /\ sRes'.err = "Stopped" => sRes'.code = error_from_http3(sStop[1])
            /\ sRes'.err # "Stopped" => sRes'.code = None
            /\ (~sConnLost /\ sState = "Ready") => sRes'.err = "Stopped"]_vars

C12_Witness ==
    /\ sRes.op = "write_all"
    /\ sRes.kind = "Err"
    /\ sRes.err = "Stopped"
    /\ sRes.code = Some(U32_MAX)
    /\ sStop = Some(error_to_http3(U32_MAX))

\* C13: a poll_send whose write accepts n bytes returns Ready(Ok(n)) with
\* n no more than the chunk it was given, and has advanced the buffer by n:
\* the bytes accepted are the n bytes taken from the front of the buffer.
C13_PollSendAdvances ==
    [][(SendReturns /\ sRes'.op = "poll_send") =>
            /\ Len(sSent') > Len(sSent) =>
                    /\ sRes'.kind = "Ok"
                    /\ sRes'.n = Len(sSent') - Len(sSent)
            /\ sRes'.kind = "Ok" =>
                    /\ sRes'.n <= sRes'.arg
                    /\ sPos' = sPos + sRes'.n
                    /\ sSent' = sSent \o SubSeq(Data, sPos + 1, sPos + sRes'.n)]_vars

C13_Witness ==
    /\ sRes.op = "poll_send"
    /\ sRes.kind = "Ok"
    /\ sRes.arg = 2
    /\ sRes.n = 1
    /\ sPos = 1
    /\ sSent = <<1>>

\* A poll_recv returns in this step.
PollRecvReturns == RecvReturns /\ rRes'.op = "poll_recv"

\* Every byte the peer sent before finishing has been taken out of the
\* stream.
AllDelivered == rFin /\ Len(rTaken) = pSent

\* C14 as stated: poll_recv returns Ready(Ok(None)) only after every byte
\* the peer sent before finishing has been delivered.
C14_Original ==
    [][(PollRecvReturns /\ rRes'.err = "End") => AllDelivered]_vars

\* C14, amended: poll_recv returns Ready(Ok(None)) only at the end of the
\* handle: after every byte the peer sent before finishing has been
\* delivered, after a local stop, or after the peer's reset; it returns
\* Pending only while the stream has neither ended nor data, the first poll
\* after the last byte of a finished stream returns Ready(Ok(None)), and
\* Ready(Ok(Some(n))) comes with exactly the next n bytes appended.
C14_EndOfStream ==
    [][PollRecvReturns =>
            /\ rRes'.err = "End" =>
                    /\ rRes'.kind = "Ok"
                    /\ rOut' = <<>>
                    /\ AllDelivered \/ rStopOut # <<>> \/ rReset # None
            /\ (rRes'.kind = "Ok" /\ rRes'.err # "End") =>
                    /\ Len(rOut') = rRes'.n
                    /\ rTaken' = rTaken \o rOut'
                    /\ rOut' = SubSeq(PeerData, Len(rTaken) + 1,
                                      Len(rTaken) + rRes'.n)
            /\ rRes'.kind = "Pending" =>
                    /\ ~rFin /\ ~rAllRead
                    /\ Len(rTaken) = pSent
            /\ (AllDelivered /\ ~rAllRead /\ ~rUnordered) =>
                    rRes'.err = "End"]_vars

C14_Witness ==
    /\ rRes.op = "poll_recv"
    /\ rRes.kind = "Ok"
    /\ rRes.err = "End"
    /\ rFin
    /\ pSent = 2
    /\ rTaken = <<1, 2>>
    /\ rStopOut = <<>>

\* The wire codes reset and stop can put on the wire.
Translations == {error_to_http3(c) : c \in StreamAppCodes}

\* C15: the generic reset, stop and set_priority return normally in every
\* state of the stream and act as the direct operation acts, once: where it
\* succeeds one RESET_STREAM or STOP_SENDING with the translated code is
\* issued, or the priority is set; where it fails nothing is signalled and
\* nothing changes.
C15_FireAndForget ==
    [][/\ (SendReturns /\ sRes'.op = "generic_reset") =>
            /\ sRes'.kind = "Ok"
            /\ sSent' = sSent /\ sPrio' = sPrio
            /\ IF sState \in {"ResetSent", "Closed"}
               THEN sResets' = sResets /\ sState' = sState
               ELSE /\ sResets' \in {Append(sResets, w) : w \in Translations}
                    /\ sResets' = <<error_to_http3(sResetOk'[1])>>
                    /\ sState' = "ResetSent"
       /\ (SendReturns /\ sRes'.op = "generic_set_priority") =>
            /\ sRes'.kind = "Ok"
            /\ sResets' = sResets /\ sState' = sState
            /\ sPrio' = IF sState = "Closed" THEN sPrio ELSE sRes'.arg
       /\ (RecvReturns /\ rRes'.op = "generic_stop") =>
            /\ rRes'.kind = "Ok"
            /\ IF rAllRead \/ rReset # None
               THEN rStopOut' = rStopOut
               ELSE rStopOut' \in {Append(rStopOut, w) : w \in Translations}]_vars

C15_Witness ==
    /\ sRes.op = "generic_reset"
    /\ sRes.kind = "Ok"
    /\ sFinished
    /\ sState = "Closed"
    /\ sResets = <<>>

IsPrefix(s, t) == Len(s) <= Len(t) /\ s = SubSeq(t, 1, Len(s))

\* C16 as stated: whatever reads are made, read_chunk with ordered = false
\* among them, the bytes delivered so far are a prefix of what the peer
\* wrote, and the bytes accepted a prefix of what the caller wrote.
C16_Original == IsPrefix(rTaken, PeerData) /\ IsPrefix(sSent, Data)

\* What has been delivered is what the peer wrote, no byte twice and none
\* that has not arrived; in order, unless a chunk was read unordered.
C16_Inv ==
    /\ ~rUnordered => IsPrefix(rTaken, SubSeq(PeerData, 1, pSent))
    /\ \A i \in DOMAIN rTaken :
        /\ rTaken[i] \in (1..pSent) \cup rAhead
        /\ \A j \in DOMAIN rTaken : rTaken[i] = rTaken[j] => i = j
    /\ sSent = SubSeq(Data, 1, sPos)
    /\ sPeerGot <= Len(sSent)

C16_Act ==
    /\ (RecvReturns /\ rRes'.op \in PartialReads \cup {"poll_recv"}) =>
        /\ rTaken' = rTaken \o rOut'
        /\ Len(rOut') = rRes'.n
        /\ ~rUnordered' =>
                rOut' = SubSeq(PeerData, Len(rTaken) + 1,
                               Len(rTaken) + rRes'.n)
        /\ (rRes'.op # "read_chunk" /\ rOut' # <<>>) => ~rUnordered'
    /\ (SendReturns /\ sRes'.op \in PartialWrites \cup {"poll_send"}) =>
        /\ sSent' = sSent \o SubSeq(Data, sPos + 1, sPos' )
        /\ sPos' = sPos + (IF sRes'.kind = "Ok" THEN sRes'.n ELSE 0)

\* C16: for any sequence of read, read_chunk with ordered = true and
\* poll_recv calls on one RecvStream the concatenation of the bytes delivered
\* is a prefix of the byte sequence the peer wrote; a read_chunk with
\* ordered = false delivers bytes the peer wrote, none twice, and may deliver
\* them ahead of bytes that have not arrived. For any sequence of write and
\* poll_send calls on one SendStream the bytes accepted are sent in issuance
\* order. The adapter reorders nothing and duplicates nothing.
C16_Ordering == []C16_Inv /\ [][C16_Act]_vars

C16_Witness ==
    /\ ~rUnordered
    /\ rRes.op = "poll_recv"
    /\ rRes.n = 1
    /\ rOut = <<2>>
    /\ rTaken = <<1, 2>>

\* The operations that never wait, and those that may.
NonWaitingSend ==
    {"reset", "generic_reset", "set_priority", "generic_set_priority",
     "priority"}
NonWaitingRecv == {"stop", "generic_stop"}
Waiting == {"stopped", "finish"} \cup WriteOps \cup {"poll_finish"}

\* Whenever the task is not suspended in a call, the priority operations
\* can be called and return at once; the result of a reset, a stop or a
\* priority operation is Ok or an error; a call in which the task is
\* suspended, or a result "not ready", is one of a byte transfer, of finish
\* or of stopped().
C17_Inv ==
    /\ sCall = None =>
        /\ \A order \in PrioOrders :
            /\ ENABLED SendStream_set_priority(order)
            /\ ENABLED generic_set_priority(order)
        /\ ENABLED SendStream_priority
    /\ sRes.op \in NonWaitingSend => sRes.kind \in {"Ok", "Err"}
    /\ rRes.op \in NonWaitingRecv => rRes.kind \in {"Ok", "Err"}
    /\ sCall # None => sCall[1].op \in Waiting
    /\ sRes.kind = "Pending" => sRes.op \in Waiting
    /\ rRes.kind = "Pending" => rRes.op = "poll_recv"

C17_Act ==
    /\ (SendReturns /\ sRes'.op \in NonWaitingSend) =>
        /\ sCall = None /\ sCall' = None
        /\ sRes'.kind \in {"Ok", "Err"}
    /\ (RecvReturns /\ rRes'.op \in NonWaitingRecv) =>
        /\ rCall = None /\ rCall' = None
        /\ rRes'.kind \in {"Ok", "Err"}
    /\ (sCall = None /\ sCall' # None) => sCall'[1].op \in Waiting

\* C17: in every reachable state of the stream (open, finished, reset,
\* stopped by the peer, connection lost) reset, stop and the priority get and
\* set complete in a single step with Ok or an error and never wait; only
\* byte transfers, finish and stopped() return "not ready" or suspend.
C17_NonSuspension == []C17_Inv /\ [][C17_Act]_vars

\* A reset returns at once on a stream which the peer has stopped and whose
\* connection is lost.
C17_Witness ==
    /\ sRes.op = "reset"
    /\ sRes.kind = "Ok"
    /\ sStop # None
    /\ sConnLost
    /\ sState = "ResetSent"

\* C18: for every u32 code, to_wire(code) is below 2^62, a QUIC
\* variable-length integer, so that the unwrap of the conversion in
\* SendStream::reset and RecvStream::stop never panics: no encoding ends in
\* the panic, and the wire code of every encoded application code is below
\* 2^62 and within the reserved range.
C18_NoPanic ==
    /\ cPhase # "panic"
    /\ (cApp # None /\ cPhase \in {"wire", "decoded"}) =>
        /\ Less(cWire, <<2^14, 0, 0>>)
        /\ cWire = error_to_http3(cApp[1])
        /\ ~Less(ERROR_LAST, cWire)
        /\ VarIntTryFrom(cWire) = Some(cWire)

\* The largest code, u32::MAX, is encoded as the last code of the range.
C18_Witness ==
    /\ cPhase = "wire"
    /\ cApp = Some(U32_MAX)
    /\ cWire = ERROR_LAST

\* C19: a poll_send holds no write between calls; when it returns Pending
\* or an error the cursor of the buffer is where it was and the stream has
\* accepted nothing, so that over any sequence of polls the bytes accepted by
\* the stream are exactly the bytes consumed from the buffer, none lost and
\* none sent twice.
C19_NoLossNoRepeat ==
    [](sSent = SubSeq(Data, 1, sPos))
        /\ [][(SendReturns /\ sRes'.op = "poll_send") =>
                /\ sCall = None /\ sCall' = None
                /\ sRes'.kind \in {"Pending", "Err"} =>
                        sPos' = sPos /\ sSent' = sSent
                /\ Len(sSent') - Len(sSent) = sPos' - sPos]_vars

\* A poll that is not ready, after a poll that accepted the first byte: the
\* byte is neither lost nor offered again.
C19_Witness ==
    /\ sRes.op = "poll_send"
    /\ sRes.kind = "Pending"
    /\ sRes.arg = 1
    /\ sPos = 1
    /\ sSent = <<1>>

\* C20: poll_recv asks for at most the remaining capacity of the buffer, so
\* that the chunk it appends never exceeds that capacity, a capacity of zero
\* included; the count it returns is the number of bytes appended; when it
\* returns Pending or an error the buffer is unchanged and nothing has been
\* taken out of the stream, so that dropping the single-shot read loses no
\* received byte.
C20_WithinCapacity ==
    [][PollRecvReturns =>
            /\ Len(rOut') <= rRes'.arg
            /\ rRes'.n = Len(rOut')
            /\ rTaken' = rTaken \o rOut'
            /\ rCall' = None
            /\ rRes'.kind \in {"Pending", "Err"} =>
                    /\ rOut' = <<>>
                    /\ rTaken' = rTaken
                    /\ pSent' = pSent]_vars

\* A poll into a full buffer while a byte waits in the stream: an empty
\* chunk is appended and the byte stays in the stream.
C20_Witness ==
    /\ rRes.op = "poll_recv"
    /\ rRes.kind = "Ok"
    /\ rRes.err = ""
    /\ rRes.arg = 0
    /\ rRes.n = 0
    /\ rTaken = <<>>
    /\ pSent = 1

=============================================================================
